---- MODULE Spec2Model ----
(***************************************************************************)
(* FraudGuard detection engine (backend/main.py): the /analyze handler,    *)
(* the configuration loader, the mock risk model and the /config update    *)
(* handler, over the four Supabase tables they touch.                      *)
(*                                                                         *)
(* Units.  Scores and thresholds are integers in thousandths (0.70 is      *)
(* 700); amounts and min_amount_alert are whole currency units.            *)
(*                                                                         *)
(* Steps.  A handler is cut at its calls to the store, the places where    *)
(* another worker's upserts can fall between two of its steps; one worker  *)
(* running its handlers one after the other is among the behaviours.       *)
(***************************************************************************)
EXTENDS Integers, Sequences, FiniteSets, TLC

VARIABLES
    rules_config,        \* table rules_config: key -> stored text, or NoRow
    suspicious_entities, \* table suspicious_entities: set of entity hashes
    transactions,        \* table transactions: set of inserted ids
    fraud_predictions,   \* table fraud_predictions: set of rows
    alerts,              \* table alerts: set of rows
    background_tasks,    \* alert inserts scheduled to run after the response
    pc,                  \* position of the /analyze request
    tx,                  \* TransactionInput of the request
    transaction_id,      \* local of analyze_transaction
    is_banned,           \* local of analyze_transaction
    res,                 \* get_full_config: result of the select (ok, rows)
    config,              \* local of analyze_transaction
    country,             \* local of analyze_transaction
    fraud_score,         \* local of analyze_transaction
    prediction_id,       \* local of analyze_transaction
    response,            \* what the caller of /analyze receives
    calls,               \* per request: how often each collaborator was called
    upc,                 \* position of the /config update request
    updates,             \* update_config: the updates not yet upserted
    uresponse,           \* what the caller of POST /config receives
    nreq,                \* /analyze requests started
    nupd,                \* updates received by POST /config so far
    rules_at_select,     \* history: rules_config as it was at the select
    ubody,               \* history: the updates of the POST /config that
                         \*   is running or has failed (SpecUpdate)
    rules_at_call,       \* history: rules_config when that request arrived
    store_failures       \* history: the tables whose call raised in this request

vars == <<rules_config, suspicious_entities, transactions, fraud_predictions,
          alerts, background_tasks, pc, tx, transaction_id, is_banned, res,
          config, country, fraud_score, prediction_id, response, calls,
          upc, updates, uresponse, nreq, nupd, rules_at_select,
          ubody, rules_at_call, store_failures>>

-----------------------------------------------------------------------------
(* Bounds of the model *)

MaxRequests == 1
MaxUpdates == 2
MaxRows == 3
MaxIpParts == 5

-----------------------------------------------------------------------------
(* Values.  A stored config value is a string; what matters of a string is  *)
(* which of float(), int() and json.loads() accept it and what they yield.  *)
(*   dec   "0.3", "100.0"  float ok, int fails, json gives a number         *)
(*   int   "3", "1000"     float ok, int ok,    json gives a number         *)
(*   bool  "True", "False" float fails, int fails, json fails               *)
(*   word  "abc", "true"   float fails, int fails; json ok only for "true"  *)
(*   json  "[\"DE\"]"      float fails, int fails, json gives the list      *)

None == [t |-> "none"]
NoRow == [t |-> "norow"]

Dec(n) == [t |-> "dec", n |-> n]
Int_(n) == [t |-> "int", n |-> n]
Bool_(b) == [t |-> "bool", b |-> b]
Word(w) == [t |-> "word", w |-> w]
Json(l) == [t |-> "json", l |-> l]

\* A request body value of ConfigUpdate.value (Any): a JSON number, boolean,
\* string or list.
VFloat(n) == [t |-> "float", n |-> n]
VInt(n) == [t |-> "pyint", n |-> n]
VBool(b) == [t |-> "pybool", b |-> b]
VStr(text) == [t |-> "str", text |-> text]
VList(l) == [t |-> "list", l |-> l]

\* str(value) / json.dumps(value) of update_config.
to_text(value) ==
    CASE value.t = "list" -> Json(value.l)
      [] value.t = "float" -> Dec(value.n)
      [] value.t = "pyint" -> Int_(value.n)
      [] value.t = "pybool" -> Bool_(value.b)
      [] value.t = "str" -> value.text

float_ok(text) == text.t \in {"dec", "int"}
int_ok(text) == text.t = "int"
json_ok(text) == text.t \in {"dec", "int", "json"} \/ text = Word("true")

\* json.loads(text): a list stays a list of codes, anything else is a value
\* that is not a container.
json_loads(text) ==
    IF text.t = "json" THEN [iterable |-> TRUE, items |-> text.l]
    ELSE [iterable |-> FALSE, items |-> <<>>]

-----------------------------------------------------------------------------
(* get_full_config *)

config_defaults ==
    [fraud_threshold_critical |-> 700,
     fraud_threshold_medium |-> 500,
     sensitive_countries |-> [iterable |-> TRUE, items |-> <<"RU", "CN">>],
     min_amount_alert |-> 100,
     max_anomalies |-> 3,
     auto_block_active |-> TRUE]

Row(key, value) == [key |-> key, value |-> value]

\* The conversions of one row that raise out of the loop: float() and int()
\* are not guarded, json.loads() is (its failure is passed over).
row_raises(row) ==
    CASE row.key = "fraud_threshold_high" -> ~float_ok(row.value)
      [] row.key = "fraud_threshold_medium" -> ~float_ok(row.value)
      [] row.key = "min_amount_alert" -> ~float_ok(row.value)
      [] row.key = "max_anomalies" -> ~int_ok(row.value)
      [] OTHER -> FALSE

\* The body of the loop for a row whose conversion does not raise.
apply_row(cfg, row) ==
    CASE row.key = "fraud_threshold_high" ->
            [cfg EXCEPT !.fraud_threshold_critical = row.value.n]
      [] row.key = "fraud_threshold_medium" ->
            [cfg EXCEPT !.fraud_threshold_medium = row.value.n]
      [] row.key = "sensitive_countries" ->
            IF json_ok(row.value)
            THEN [cfg EXCEPT !.sensitive_countries = json_loads(row.value)]
            ELSE cfg
      [] row.key = "min_amount_alert" ->
            [cfg EXCEPT !.min_amount_alert = row.value.n]
      [] row.key = "max_anomalies" ->
            [cfg EXCEPT !.max_anomalies = row.value.n]
      [] row.key = "auto_block_active" ->
            [cfg EXCEPT !.auto_block_active =
                row.value \in {Bool_(TRUE), Word("true"), Word("True")}]
      [] OTHER -> cfg

\* for row in res.data: ... inside the try; the first conversion that raises
\* leaves the loop, and the handler returns the config as updated so far.
RECURSIVE load_rows(_, _)
load_rows(cfg, rows) ==
    IF rows = <<>> THEN cfg
    ELSE IF row_raises(Head(rows)) THEN cfg
    ELSE load_rows(apply_row(cfg, Head(rows)), Tail(rows))

\* Variant: the fallback of get_config_thresholds (critical 0.85) on failure.
get_full_config_old_fallback(result) ==
    IF result.ok THEN load_rows(config_defaults, result.data)
    ELSE [config_defaults EXCEPT !.fraud_threshold_critical = 850]

\* result: what select("key, value").execute() gave: it raised (ok = FALSE)
\* or returned the rows in the order the store chose.
get_full_config(result) ==
    IF result.ok THEN load_rows(config_defaults, result.data)
    ELSE config_defaults

-----------------------------------------------------------------------------
(* MockXGBoost *)

HIGH_RISK_CATEGORIES == {<<"Electronics">>, <<"Jewelry">>, <<"Gambling">>}
MEDIUM_RISK_CATEGORIES == {<<"Travel">>, <<"Services">>, <<"Crypto">>}

\* A category string is a sequence of tokens, a token being a run of
\* whitespace (" ") or a word; str.strip() drops the whitespace at both ends.
RECURSIVE lstrip(_)
lstrip(s) == IF s # <<>> /\ Head(s) = " " THEN lstrip(Tail(s)) ELSE s

RECURSIVE rstrip(_)
rstrip(s) ==
    IF s # <<>> /\ s[Len(s)] = " " THEN rstrip(SubSeq(s, 1, Len(s) - 1)) ELSE s

strip(s) == rstrip(lstrip(s))

in_list(x, l) == \E i \in 1..Len(l) : l[i] = x

\* Variant: the bonuses of the tiers above 2000 and above 5000 exchanged.
amount_bonus_swapped(amount) ==
    IF amount > 8000 THEN 450
    ELSE IF amount > 5000 THEN 300
    ELSE IF amount > 2000 THEN 350
    ELSE IF amount > 1000 THEN 200
    ELSE IF amount > 500 THEN 100
    ELSE 0

amount_bonus(amount) ==
    IF amount > 8000 THEN 450
    ELSE IF amount > 5000 THEN 350
    ELSE IF amount > 2000 THEN 300
    ELSE IF amount > 1000 THEN 200
    ELSE IF amount > 500 THEN 100
    ELSE 0

category_bonus(category) ==
    IF strip(category) \in HIGH_RISK_CATEGORIES THEN 300
    ELSE IF strip(category) \in MEDIUM_RISK_CATEGORIES THEN 200
    ELSE 0

\* country in sensitive_countries raises TypeError when the configured value
\* is not a container (country is never empty here).
predict_raises(cfg) == ~cfg.sensitive_countries.iterable

country_bonus(ctry, cfg) ==
    IF in_list(ctry, cfg.sensitive_countries.items) THEN 250 ELSE 0

\* Variant: rule 4 placed before the bonuses, halving the base alone.
base_score_halved_first(amount, category, ctry, cfg) ==
    (IF amount < cfg.min_amount_alert THEN 25 ELSE 50)
        + amount_bonus(amount) + category_bonus(category)
        + country_bonus(ctry, cfg)

\* base_score before the noise: rules 1 to 4.
base_score(amount, category, ctry, cfg) ==
    LET total == 50 + amount_bonus(amount) + category_bonus(category)
                    + country_bonus(ctry, cfg)
    IN  IF amount < cfg.min_amount_alert THEN total \div 2 ELSE total

\* Variant: min(x, 1), the lower clamp forgotten.
clamp_upper_only(x) == IF x < 1000 THEN x ELSE 1000

\* min(max(x, 0), 1)
clamp(x) ==
    LET lo == IF x > 0 THEN x ELSE 0
    IN  IF lo < 1000 THEN lo ELSE 1000

predict(amount, category, ctry, cfg, noise) ==
    clamp(base_score(amount, category, ctry, cfg) + noise)

-----------------------------------------------------------------------------
(* get_country_from_ip, hash_data, check_ban_list *)

\* An IP string is the sequence of its parts between dots; a part is a run
\* of digits with its value, the empty string, or some other text; a part
\* such as a superscript two passes str.isdigit() and makes int() raise.
Octet(n) == [t |-> "digits", n |-> n]
EmptyPart == [t |-> "empty", n |-> 0]
TextPart == [t |-> "text", n |-> 0]
DigitLikePart == [t |-> "digitlike", n |-> 0]

countries == <<"FR", "US", "RU", "CN", "BR", "DE", "GB">>

RECURSIVE digit_sum(_)
digit_sum(ip) ==
    IF ip = <<>> THEN 0
    ELSE (IF Head(ip).t = "digits" THEN Head(ip).n ELSE 0) + digit_sum(Tail(ip))

\* if not ip; the sum over the parts that pass isdigit(); except: "FR"
get_country_from_ip(ip) ==
    IF ip = <<EmptyPart>> THEN "FR"
    ELSE IF \E i \in 1..Len(ip) : ip[i] = DigitLikePart THEN "FR"
    ELSE countries[(digit_sum(ip) % Len(countries)) + 1]

\* SHA-256 of the string: distinct strings have distinct digests here.
hash_data(data) == <<"sha256", data>>

\* Variant: the failed lookup is caught and read as "not banned".
check_ban_list_unguarded(ip, table, ok) ==
    [raised |-> FALSE, value |-> ok /\ hash_data(ip) \in table]

\* ok: whether the select on suspicious_entities returned; raised means the
\* exception leaves check_ban_list.
check_ban_list(ip, table, ok) ==
    IF ok THEN [raised |-> FALSE, value |-> hash_data(ip) \in table]
    ELSE [raised |-> TRUE, value |-> FALSE]

-----------------------------------------------------------------------------
(* The tables and their calls.  Every execute() either returns or raises;   *)
(* ok says which.                                                           *)

ConfigKeys == {"fraud_threshold_high", "fraud_threshold_medium",
               "sensitive_countries", "min_amount_alert", "max_anomalies",
               "auto_block_active"}

EmptyRules == [k \in ConfigKeys |-> NoRow]

RowKeys(table) == {k \in ConfigKeys : table[k] # NoRow}

\* The sequences that list every element of S once.
RECURSIVE Orders(_)
Orders(S) ==
    IF S = {} THEN {<<>>}
    ELSE UNION {{<<k>> \o rest : rest \in Orders(S \ {k})} : k \in S}

\* Variant: the rows come from a copy taken when the service started.
select_rules_config_cached(table, order, ok) ==
    [ok |-> ok, data |-> <<>>]

\* supabase.table("rules_config").select("key, value").execute(): the rows
\* of the table, in the order the store returns them.
select_rules_config(table, order, ok) ==
    [ok |-> ok,
     data |-> IF ok THEN [i \in 1..Len(order) |-> Row(order[i], table[order[i]])]
              ELSE <<>>]

\* supabase.table("rules_config").upsert({key, value, updated_at}).execute()
upsert_rules_config(table, key, text) == [table EXCEPT ![key] = text]

\* Of the rows of transactions, fraud_predictions and alerts the tables keep
\* the columns that are read again: the ids, and an alert's status and
\* severity.  No handler below reads the other columns back.

\* Variant: the failed insert is passed over and the handler goes on.
insert_transaction_unchecked(table, ok) ==
    IF ok
    THEN [raised |-> FALSE, id |-> Cardinality(table) + 1,
          table |-> table \cup {Cardinality(table) + 1}]
    ELSE [raised |-> FALSE, id |-> 0, table |-> table]

\* supabase.table("transactions").insert(tx_data).execute(); data[0]['id']
insert_transaction(table, ok) ==
    IF ok
    THEN [raised |-> FALSE, id |-> Cardinality(table) + 1,
          table |-> table \cup {Cardinality(table) + 1}]
    ELSE [raised |-> TRUE, id |-> 0, table |-> table]

\* supabase.table("fraud_predictions").insert(pred_payload).execute();
\* data[0]['id']
insert_prediction(table, tid, ok) ==
    IF ok
    THEN [raised |-> FALSE, id |-> Cardinality(table) + 1,
          table |-> table \cup {[id |-> Cardinality(table) + 1,
                                  transaction_id |-> tid]}]
    ELSE [raised |-> TRUE, id |-> 0, table |-> table]

\* supabase.table("alerts").insert(alert_payload).execute()
insert_alert(table, payload, ok) ==
    IF ok THEN [raised |-> FALSE, table |-> table \cup {payload}]
    ELSE [raised |-> TRUE, table |-> table]

-----------------------------------------------------------------------------
(* Responses of /analyze *)

NoResponse ==
    [kind |-> "none", action |-> "", reason |-> "", score |-> -1,
     transaction_id |-> 0, status |-> 0, cause |-> ""]

\* An exception that leaves the handler: HTTPException(500) from the
\* transaction insert, an unhandled exception (500) from anything else.
ErrorResponse(cause) ==
    [NoResponse EXCEPT !.kind = "error", !.status = 500, !.cause = cause]

BlacklistResponse(id) ==
    [NoResponse EXCEPT !.kind = "decision", !.status = 200, !.action = "BLOCK",
                       !.reason = "BLACKLIST_MATCH", !.transaction_id = id]

\* round(fraud_score, 4): scores here are whole thousandths, which four
\* decimal places hold exactly.
round4(score) == score

ScoredResponse(action, score, id) ==
    [NoResponse EXCEPT !.kind = "decision", !.status = 200, !.action = action,
                       !.score = round4(score), !.transaction_id = id]

NoCalls ==
    [check_ban_list |-> 0, get_full_config |-> 0, predict |-> 0,
     insert_prediction |-> 0, insert_alert |-> 0]

\* Step 6 of analyze_transaction: decision, severity, create_alert.
decide(score, cfg) ==
    IF score >= cfg.fraud_threshold_critical
    THEN [decision |-> "BLOCK", severity |-> "CRITIQUE", create_alert |-> TRUE]
    ELSE IF score >= cfg.fraud_threshold_medium
    THEN [decision |-> "REVIEW", severity |-> "MOYENNE", create_alert |-> TRUE]
    ELSE [decision |-> "ALLOW", severity |-> "BASSE", create_alert |-> FALSE]

-----------------------------------------------------------------------------
(* Inputs *)

ConfigUpdate(key, value) == [key |-> key, value |-> value]

\* Bodies of POST /config sent while requests are being analysed.
Updates ==
    {ConfigUpdate("fraud_threshold_high", VFloat(300)),
     ConfigUpdate("fraud_threshold_high", VStr(Word("abc"))),
     ConfigUpdate("fraud_threshold_medium", VFloat(400)),
     ConfigUpdate("sensitive_countries", VList(<<"DE">>))}

\* What POST /config may have left in the table: any value under any key.
AllUpdates ==
    Updates \cup
    {ConfigUpdate("fraud_threshold_high", VFloat(1500)),
     ConfigUpdate("fraud_threshold_medium", VFloat(800)),
     ConfigUpdate("fraud_threshold_medium", VStr(Word("abc"))),
     ConfigUpdate("sensitive_countries", VStr(Word("abc"))),
     ConfigUpdate("sensitive_countries", VInt(5)),
     ConfigUpdate("min_amount_alert", VInt(1000)),
     ConfigUpdate("min_amount_alert", VStr(Word("abc"))),
     ConfigUpdate("max_anomalies", VInt(5)),
     ConfigUpdate("max_anomalies", VFloat(3)),
     ConfigUpdate("auto_block_active", VBool(FALSE)),
     ConfigUpdate("auto_block_active", VStr(Word("true")))}

\* The tables of at most MaxRows rows that upserts of AllUpdates produce.
RECURSIVE TablesOf(_)
TablesOf(n) ==
    IF n = 0 THEN {EmptyRules}
    ELSE LET smaller == TablesOf(n - 1)
         IN  smaller \cup
             {upsert_rules_config(t, u.key, to_text(u.value)) :
                 t \in smaller, u \in AllUpdates}

Tables == {t \in TablesOf(MaxRows) : Cardinality(RowKeys(t)) <= MaxRows}

\* Sequences over S of length 1..n.
RECURSIVE SeqsUpTo(_, _)
SeqsUpTo(S, n) ==
    IF n = 0 THEN {}
    ELSE LET shorter == SeqsUpTo(S, n - 1)
         IN  {<<x>> : x \in S} \cup
             {<<x>> \o q : x \in S, q \in shorter}

BannedIp == <<Octet(203), Octet(0), Octet(113), Octet(7)>>

Ips == {<<Octet(192), Octet(168), Octet(1), Octet(1)>>, BannedIp}

TxInputs ==
    [amount : {600, 2500},
     category : {<<"Food">>, <<"Electronics">>},
     ip_address : Ips]

\* Draws of np.random.normal(0, 0.05), in thousandths.
Noise == {-50, 0, 50}

NoTx == [amount |-> 0, category |-> <<>>, ip_address |-> <<EmptyPart>>]

-----------------------------------------------------------------------------
(* POST /analyze: analyze_transaction, one action per call to the store *)

AnalyzeLocalsReset ==
    /\ transaction_id' = 0
    /\ is_banned' = FALSE
    /\ res' = [ok |-> FALSE, data |-> <<>>]
    /\ config' = None
    /\ country' = ""
    /\ fraud_score' = -1
    /\ prediction_id' = 0
    /\ response' = NoResponse
    /\ calls' = NoCalls
    /\ rules_at_select' = EmptyRules
    /\ store_failures' = {}

\* The history of the calls that raised.
Failed(table, ok) == IF ok THEN store_failures ELSE store_failures \cup {table}

\* A request arrives (the previous one, if any, has been answered).
AnalyzeReceive ==
    /\ pc \in {"idle", "done"}
    /\ nreq < MaxRequests
    /\ \E t \in TxInputs : tx' = t
    /\ pc' = "insert_transaction"
    /\ nreq' = nreq + 1
    /\ AnalyzeLocalsReset
    /\ UNCHANGED <<rules_config, suspicious_entities, transactions,
                   fraud_predictions, alerts, background_tasks,
                   upc, updates, uresponse, nupd, ubody,
                   rules_at_call>>

\* 1. insert into transactions; a failure is raised as HTTPException(500).
AnalyzeInsertTransaction ==
    /\ pc = "insert_transaction"
    /\ \E ok \in BOOLEAN :
          LET r == insert_transaction(transactions, ok)
          IN  /\ store_failures' = Failed("transactions", ok)
              /\ transactions' = r.table
              /\ transaction_id' = r.id
              /\ IF r.raised
                 THEN /\ response' = ErrorResponse("transactions")
                      /\ pc' = "done"
                 ELSE /\ response' = response
                      /\ pc' = "check_ban_list"
    /\ UNCHANGED <<rules_config, suspicious_entities, fraud_predictions, alerts,
                   background_tasks, tx, is_banned, res, config, country,
                   fraud_score, prediction_id, calls, upc, updates, uresponse,
                   nreq, nupd, rules_at_select, ubody,
                   rules_at_call>>

\* 2. check_ban_list; its exception is not caught.
AnalyzeCheckBanList ==
    /\ pc = "check_ban_list"
    /\ \E ok \in BOOLEAN :
          LET r == check_ban_list(tx.ip_address, suspicious_entities, ok)
          IN  /\ store_failures' = Failed("suspicious_entities", ok)
              /\ is_banned' = r.value
              /\ IF r.raised
                 THEN /\ response' = ErrorResponse("suspicious_entities")
                      /\ pc' = "done"
                 ELSE /\ response' = response
                      /\ pc' = IF r.value THEN "blacklist_alert"
                               ELSE "get_full_config"
    /\ calls' = [calls EXCEPT !.check_ban_list = @ + 1]
    /\ UNCHANGED <<rules_config, suspicious_entities, transactions,
                   fraud_predictions, alerts, background_tasks, tx,
                   transaction_id, res, config, country, fraud_score,
                   prediction_id, upc, updates, uresponse, nreq, nupd,
                   rules_at_select, ubody,
                   rules_at_call>>

BlacklistAlert(id) ==
    [transaction_id |-> id, prediction_id |-> 0, status |-> "RESOLU_FRAUDE",
     severity |-> "CRITIQUE"]

ScoreAlert(id, pred, severity) ==
    [transaction_id |-> id, prediction_id |-> pred, status |-> "NOUVEAU",
     severity |-> severity]

\* if is_banned: the alert is inserted in the handler itself, then BLOCK is
\* returned; an exception of the insert is not caught.
AnalyzeBlacklistAlert ==
    /\ pc = "blacklist_alert"
    /\ \E ok \in BOOLEAN :
          LET r == insert_alert(alerts, BlacklistAlert(transaction_id), ok)
          IN  /\ store_failures' = Failed("alerts", ok)
              /\ alerts' = r.table
              /\ response' = IF r.raised THEN ErrorResponse("alerts")
                             ELSE BlacklistResponse(transaction_id)
    /\ calls' = [calls EXCEPT !.insert_alert = @ + 1]
    /\ pc' = "done"
    /\ UNCHANGED <<rules_config, suspicious_entities, transactions,
                   fraud_predictions, background_tasks, tx, transaction_id,
                   is_banned, res, config, country, fraud_score, prediction_id,
                   upc, updates, uresponse, nreq, nupd, rules_at_select, ubody,
                   rules_at_call>>

\* 3. config = get_full_config(); 4. country = get_country_from_ip(ip)
AnalyzeGetFullConfig ==
    /\ pc = "get_full_config"
    /\ \E ok \in BOOLEAN, order \in Orders(RowKeys(rules_config)) :
          /\ store_failures' = Failed("rules_config", ok)
          /\ res' = select_rules_config(rules_config, order, ok)
          /\ config' = get_full_config(res')
    /\ rules_at_select' = rules_config
    /\ country' = get_country_from_ip(tx.ip_address)
    /\ calls' = [calls EXCEPT !.get_full_config = @ + 1]
    /\ pc' = "predict"
    /\ UNCHANGED <<rules_config, suspicious_entities, transactions,
                   fraud_predictions, alerts, background_tasks, tx,
                   transaction_id, is_banned, fraud_score, prediction_id,
                   response, upc, updates, uresponse, nreq, nupd, ubody,
                   rules_at_call>>

\* 5. fraud_score = model.predict(amount, category, country, config), the
\* noise drawn from draws.
PredictStep(draws) ==
    /\ pc = "predict"
    /\ IF predict_raises(config)
       THEN /\ fraud_score' = fraud_score
            /\ response' = ErrorResponse("predict")
            /\ pc' = "done"
       ELSE /\ \E noise \in draws :
                 fraud_score' = predict(tx.amount, tx.category, country,
                                        config, noise)
            /\ response' = response
            /\ pc' = "insert_prediction"
    /\ calls' = [calls EXCEPT !.predict = @ + 1]
    /\ UNCHANGED <<rules_config, suspicious_entities, transactions,
                   fraud_predictions, alerts, background_tasks, tx,
                   transaction_id, is_banned, res, config, country,
                   prediction_id, upc, updates, uresponse, nreq, nupd,
                   rules_at_select, ubody,
                   rules_at_call, store_failures>>

AnalyzePredict == PredictStep(Noise)

\* insert into fraud_predictions (not caught); 6. the decision; the alert,
\* if any, is handed to background_tasks; the response is returned.
AnalyzeDecide ==
    /\ pc = "insert_prediction"
    /\ \E ok \in BOOLEAN :
          LET r == insert_prediction(fraud_predictions, transaction_id, ok)
              d == decide(fraud_score, config)
          IN  /\ store_failures' = Failed("fraud_predictions", ok)
              /\ fraud_predictions' = r.table
              /\ prediction_id' = r.id
              /\ IF r.raised
                 THEN /\ response' = ErrorResponse("fraud_predictions")
                      /\ background_tasks' = background_tasks
                      /\ calls' = [calls EXCEPT !.insert_prediction = @ + 1]
                 ELSE /\ response' = ScoredResponse(d.decision, fraud_score,
                                                    transaction_id)
                      /\ background_tasks' =
                            IF d.create_alert
                            THEN Append(background_tasks,
                                        ScoreAlert(transaction_id, r.id, d.severity))
                            ELSE background_tasks
                      /\ calls' = [calls EXCEPT
                                     !.insert_prediction = @ + 1,
                                     !.insert_alert =
                                        IF d.create_alert THEN @ + 1 ELSE @]
    /\ pc' = "done"
    /\ UNCHANGED <<rules_config, suspicious_entities, transactions, alerts, tx,
                   transaction_id, is_banned, res, config, country, fraud_score,
                   upc, updates, uresponse, nreq, nupd, rules_at_select, ubody,
                   rules_at_call>>

\* A background task runs once its response has been sent; an exception of
\* the insert stays in the task.
RunBackgroundTask ==
    /\ background_tasks # <<>>
    /\ \E ok \in BOOLEAN :
          alerts' = insert_alert(alerts, Head(background_tasks), ok).table
    /\ background_tasks' = Tail(background_tasks)
    /\ UNCHANGED <<rules_config, suspicious_entities, transactions,
                   fraud_predictions, pc, tx, transaction_id, is_banned, res,
                   config, country, fraud_score, prediction_id, response, calls,
                   upc, updates, uresponse, nreq, nupd, rules_at_select, ubody,
                   rules_at_call,
                   store_failures>>

-----------------------------------------------------------------------------
(* POST /config: update_config, one action per upsert *)

\* A POST /config arrives.  The history of the call (its body and the table
\* it found) is recorded where a property reads it, and left empty elsewhere.
UpdateConfigReceiveStep(traced) ==
    /\ upc \in {"idle", "done"}
    /\ nupd < MaxUpdates
    /\ \E body \in SeqsUpTo(Updates, MaxUpdates - nupd) :
          /\ updates' = body
          /\ ubody' = IF traced THEN body ELSE <<>>
          /\ nupd' = nupd + Len(body)
    /\ upc' = "upsert"
    /\ uresponse' = "none"
    /\ rules_at_call' = IF traced THEN rules_config ELSE EmptyRules
    /\ UNCHANGED <<rules_config, suspicious_entities, transactions,
                   fraud_predictions, alerts, background_tasks, pc, tx,
                   transaction_id, is_banned, res, config, country, fraud_score,
                   prediction_id, response, calls, nreq, rules_at_select,
                   store_failures>>

UpdateConfigReceive == UpdateConfigReceiveStep(FALSE)

\* Variant: a failing upsert is passed over and the loop goes on.
UpdateConfigUpsert_continue ==
    /\ upc = "upsert"
    /\ updates # <<>>
    /\ \E ok \in BOOLEAN :
          /\ rules_config' =
                IF ok
                THEN upsert_rules_config(rules_config, Head(updates).key,
                                         to_text(Head(updates).value))
                ELSE rules_config
          /\ uresponse' = IF ok THEN uresponse ELSE "error"
    /\ updates' = Tail(updates)
    /\ upc' = upc
    /\ UNCHANGED <<suspicious_entities, transactions, fraud_predictions, alerts,
                   background_tasks, pc, tx, transaction_id, is_banned, res,
                   config, country, fraud_score, prediction_id, response, calls,
                   nreq, nupd, rules_at_select, ubody, rules_at_call,
                   store_failures>>

\* for update in updates: upsert; an exception ends the handler with 500.
UpdateConfigUpsert ==
    /\ upc = "upsert"
    /\ updates # <<>>
    /\ \E ok \in BOOLEAN :
          IF ok
          THEN /\ rules_config' =
                    upsert_rules_config(rules_config, Head(updates).key,
                                        to_text(Head(updates).value))
               /\ updates' = Tail(updates)
               /\ upc' = upc
               /\ uresponse' = uresponse
          ELSE /\ rules_config' = rules_config
               /\ updates' = updates
               /\ upc' = "done"
               /\ uresponse' = "error"
    /\ UNCHANGED <<suspicious_entities, transactions, fraud_predictions, alerts,
                   background_tasks, pc, tx, transaction_id, is_banned, res,
                   config, country, fraud_score, prediction_id, response, calls,
                   nreq, nupd, rules_at_select, ubody,
                   rules_at_call,
                   store_failures>>

UpdateConfigReturn ==
    /\ upc = "upsert"
    /\ updates = <<>>
    /\ upc' = "done"
    /\ uresponse' = "success"
    /\ ubody' = <<>>
    /\ rules_at_call' = EmptyRules
    /\ UNCHANGED <<rules_config, suspicious_entities, transactions,
                   fraud_predictions, alerts, background_tasks, pc, tx,
                   transaction_id, is_banned, res, config, country, fraud_score,
                   prediction_id, response, calls, updates, nreq, nupd,
                   rules_at_select,
                   store_failures>>

-----------------------------------------------------------------------------
(* The service: requests to /analyze and to /config, and background tasks *)

Init ==
    /\ rules_config = EmptyRules
    /\ suspicious_entities = {hash_data(BannedIp)}
    /\ transactions = {}
    /\ fraud_predictions = {}
    /\ alerts = {}
    /\ background_tasks = <<>>
    /\ pc = "idle"
    /\ tx = NoTx
    /\ transaction_id = 0
    /\ is_banned = FALSE
    /\ res = [ok |-> FALSE, data |-> <<>>]
    /\ config = None
    /\ country = ""
    /\ fraud_score = -1
    /\ prediction_id = 0
    /\ response = NoResponse
    /\ calls = NoCalls
    /\ upc = "idle"
    /\ updates = <<>>
    /\ uresponse = "none"
    /\ nreq = 0
    /\ nupd = 0
    /\ rules_at_select = EmptyRules
    /\ ubody = <<>>
    /\ rules_at_call = EmptyRules
    /\ store_failures = {}

Next ==
    \/ AnalyzeReceive
    \/ AnalyzeInsertTransaction
    \/ AnalyzeCheckBanList
    \/ AnalyzeBlacklistAlert
    \/ AnalyzeGetFullConfig
    \/ AnalyzePredict
    \/ AnalyzeDecide
    \/ RunBackgroundTask
    \/ UpdateConfigReceive
    \/ UpdateConfigUpsert
    \/ UpdateConfigReturn

Spec == Init /\ [][Next]_vars

-----------------------------------------------------------------------------
(* get_full_config alone: a request that reached step 3, against every      *)
(* table of at most MaxRows rows.                                           *)

AtGetFullConfig(t, table) ==
    /\ rules_config = table
    /\ suspicious_entities = {hash_data(BannedIp)}
    /\ transactions = {1}
    /\ fraud_predictions = {}
    /\ alerts = {}
    /\ background_tasks = <<>>
    /\ pc = "get_full_config"
    /\ tx = t
    /\ transaction_id = 1
    /\ is_banned = FALSE
    /\ res = [ok |-> FALSE, data |-> <<>>]
    /\ config = None
    /\ country = ""
    /\ fraud_score = -1
    /\ prediction_id = 0
    /\ response = NoResponse
    /\ calls = [NoCalls EXCEPT !.check_ban_list = 1]
    /\ upc = "idle"
    /\ updates = <<>>
    /\ uresponse = "none"
    /\ nreq = 1
    /\ nupd = 0
    /\ rules_at_select = EmptyRules
    /\ ubody = <<>>
    /\ rules_at_call = EmptyRules
    /\ store_failures = {}

InitConfig ==
    \E table \in Tables :
        AtGetFullConfig([amount |-> 600, category |-> <<"Food">>,
                         ip_address |-> <<Octet(192), Octet(168), Octet(1), Octet(1)>>],
                        table)

SpecConfig == InitConfig /\ [][AnalyzeGetFullConfig]_vars

-----------------------------------------------------------------------------
(* MockXGBoost.predict alone: steps 3 to 5 of a request, over a wide range  *)
(* of amounts, categories, addresses, scoring parameters and noise draws.   *)

PredictAmounts ==
    {-100, 0, 50, 99, 100, 500, 501, 1000, 1001, 2000, 2001, 2500, 5000, 5001,
     8000, 8001, 9000, 1000000000}

PredictCategories ==
    {<<>>, <<"Food">>, <<"Electronics">>, <<"Jewelry">>, <<"Gambling">>,
     <<"Travel">>, <<" ", "Crypto", " ">>, <<"electronics">>, <<"?">>}

PredictIps ==
    {<<Octet(192), Octet(168), Octet(1), Octet(1)>>,
     <<Octet(46), Octet(121), Octet(191), Octet(99)>>,
     <<Octet(10), Octet(10), Octet(10), Octet(0)>>,
     <<Octet(10), Octet(10), Octet(10), Octet(5)>>,
     <<EmptyPart>>}

\* Draws of np.random.normal(0, 0.05) up to many standard deviations.
WideNoise == {-2000, -250, -50, 0, 50, 250, 2000}

ScoringTables ==
    {t \in Tables : RowKeys(t) \subseteq {"sensitive_countries", "min_amount_alert"}}

InitPredict ==
    \E t \in [amount : PredictAmounts, category : PredictCategories,
              ip_address : PredictIps],
       table \in ScoringTables :
        AtGetFullConfig(t, table)

ScorePredict == PredictStep(WideNoise)

NextPredict == AnalyzeGetFullConfig \/ ScorePredict

SpecPredict == InitPredict /\ [][NextPredict]_vars

-----------------------------------------------------------------------------
(* get_country_from_ip alone: step 4 of a request, over the addresses of    *)
(* at most MaxIpParts parts, well-formed or not.                            *)

IpParts ==
    {Octet(0), Octet(1), Octet(10), Octet(255), EmptyPart, TextPart,
     DigitLikePart}

CountryIps == SeqsUpTo(IpParts, MaxIpParts)

InitCountry ==
    \E ip \in CountryIps :
        AtGetFullConfig([amount |-> 600, category |-> <<"Food">>,
                         ip_address |-> ip],
                        EmptyRules)

SpecCountry == InitCountry /\ [][AnalyzeGetFullConfig]_vars

-----------------------------------------------------------------------------
(* update_config alone: POST /config requests against a table of at most   *)
(* one row, with one get_full_config of a request in flight.                *)

UpdateTables == TablesOf(1)

InitUpdate ==
    \E table \in UpdateTables :
        AtGetFullConfig([amount |-> 600, category |-> <<"Food">>,
                         ip_address |-> <<Octet(192), Octet(168), Octet(1), Octet(1)>>],
                        table)

UpdateConfigReceiveTraced == UpdateConfigReceiveStep(TRUE)

NextUpdate ==
    \/ UpdateConfigReceiveTraced
    \/ UpdateConfigUpsert
    \/ UpdateConfigReturn
    \/ AnalyzeGetFullConfig

SpecUpdate == InitUpdate /\ [][NextUpdate]_vars

-----------------------------------------------------------------------------
(* Properties *)

Answered == pc = "done"
Decision == response.kind = "decision"
ScoredDecision == Answered /\ Decision /\ response.reason = ""
BannedPath == calls.check_ban_list = 1 /\ is_banned

\* C1: a transaction whose IP hash is in the ban list is answered BLOCK with
\* reason BLACKLIST_MATCH, a critical alert is in the alerts table, and
\* neither get_full_config nor model.predict was called.
C1_BannedIsBlocked ==
    (Answered /\ BannedPath) =>
        /\ response = BlacklistResponse(transaction_id)
        /\ BlacklistAlert(transaction_id) \in alerts
        /\ calls.get_full_config = 0
        /\ calls.predict = 0

\* C2: for a scored transaction, score >= threshold_critical gives BLOCK with
\* an alert, threshold_medium <= score < threshold_critical gives REVIEW with
\* an alert, and score < threshold_medium gives ALLOW with no alert.
C2_ThresholdBands ==
    ScoredDecision =>
        LET s == fraud_score
            critical == config.fraud_threshold_critical
            medium == config.fraud_threshold_medium
        IN  /\ s >= critical =>
                response.action = "BLOCK" /\ calls.insert_alert = 1
            /\ (medium <= s /\ s < critical) =>
                response.action = "REVIEW" /\ calls.insert_alert = 1
            /\ s < medium =>
                response.action = "ALLOW" /\ calls.insert_alert = 0

\* C3: when the ban-list lookup raises, the request is answered with an
\* error: the failure is not read as "not banned", nothing is scored, and no
\* decision is returned.
C3_BanLookupFailureSurfaces ==
    "suspicious_entities" \in store_failures =>
        /\ Answered
        /\ response.kind = "error"
        /\ calls.get_full_config = 0
        /\ calls.predict = 0
        /\ calls.insert_prediction = 0
        /\ calls.insert_alert = 0
        /\ fraud_score = -1

C3_Witness ==
    /\ "suspicious_entities" \in store_failures
    /\ Answered
    /\ response = ErrorResponse("suspicious_entities")

\* C4: when the select on rules_config raises, get_full_config returns the
\* built-in defaults (critical 0.70, medium 0.50, countries RU and CN,
\* min_amount_alert 100), the score and the decision are computed with them,
\* and the failure is not what the caller receives.
C4_Defaults ==
    [fraud_threshold_critical |-> 700,
     fraud_threshold_medium |-> 500,
     sensitive_countries |-> [iterable |-> TRUE, items |-> <<"RU", "CN">>],
     min_amount_alert |-> 100,
     max_anomalies |-> 3,
     auto_block_active |-> TRUE]

C4_ConfigFailureUsesDefaults ==
    "rules_config" \in store_failures =>
        /\ config = C4_Defaults
        /\ pc \in {"predict", "insert_prediction", "done"}
        /\ response.kind = "error" => response.cause = "fraud_predictions"
        /\ fraud_score # -1 =>
              \E noise \in Noise :
                  fraud_score = predict(tx.amount, tx.category, country,
                                        C4_Defaults, noise)
        /\ Decision =>
              response.action =
                 IF fraud_score >= 700 THEN "BLOCK"
                 ELSE IF fraud_score >= 500 THEN "REVIEW" ELSE "ALLOW"

C4_Witness ==
    /\ "rules_config" \in store_failures
    /\ rules_config # EmptyRules
    /\ ScoredDecision
    /\ response.action = "BLOCK"

\* C5: a stored value that cannot be parsed leaves the default of its own key
\* only; every other stored key that parses is applied, whatever the order of
\* the rows.
ConfigField(key) ==
    CASE key = "fraud_threshold_high" -> "fraud_threshold_critical"
      [] OTHER -> key

C5_MalformedKeySkippedAlone ==
    (pc = "predict" /\ res.ok) =>
        \A i \in 1..Len(res.data) :
            LET row == res.data[i]
            IN  IF row_raises(row)
                THEN config[ConfigField(row.key)] =
                        config_defaults[ConfigField(row.key)]
                ELSE apply_row(config, row) = config

\* C6: once an alert-worthy decision is determined (the banned path and the
\* scored BLOCK or REVIEW), the caller receives it whether or not the alert
\* insert succeeds.
C6_AlertFailureNotEscalated ==
    (Answered /\ calls.insert_alert = 1) =>
        /\ Decision
        /\ response.action \in {"BLOCK", "REVIEW"}

\* C7: a request ends in a decision or in an error; a decision carries the id
\* of a stored transaction; when the transaction insert raises, the request
\* ends in an error with no ban check, scoring, prediction or alert.
C7_DecisionNeedsTransaction ==
    /\ Answered <=> response.kind \in {"decision", "error"}
    /\ Decision =>
          /\ response.transaction_id = transaction_id
          /\ response.transaction_id \in transactions
          /\ response.action \in {"ALLOW", "REVIEW", "BLOCK"}
    /\ "transactions" \in store_failures =>
          /\ Answered
          /\ response.kind = "error"
          /\ calls = NoCalls
          /\ fraud_score = -1
          /\ \A a \in alerts : a.transaction_id # transaction_id
          /\ \A q \in fraud_predictions : q.transaction_id # transaction_id

C7_Witness ==
    /\ "transactions" \in store_failures
    /\ Answered
    /\ response = ErrorResponse("transactions")

\* C8: the score predict returns is in [0, 1], for every amount, category,
\* country, config and noise draw.
C8_ScoreInUnitInterval ==
    pc = "insert_prediction" => (0 <= fraud_score /\ fraud_score <= 1000)

C8_Witness ==
    /\ pc = "insert_prediction"
    /\ tx.amount < 0
    /\ fraud_score = 0

\* C9: a scored decision made one fetch of the config, and both its score and
\* its action are those of the table as it was at that fetch, whatever has
\* been upserted since.
C9_DecisionUsesFetchedConfig ==
    (ScoredDecision /\ "rules_config" \notin store_failures) =>
        /\ calls.get_full_config = 1
        /\ \E order \in Orders(RowKeys(rules_at_select)) :
              LET c == load_rows(config_defaults,
                                 [i \in 1..Len(order) |->
                                     Row(order[i], rules_at_select[order[i]])])
              IN  /\ \E noise \in Noise :
                        fraud_score = predict(tx.amount, tx.category, country,
                                              c, noise)
                  /\ response.action = decide(fraud_score, c).decision

C9_Witness ==
    /\ ScoredDecision
    /\ "rules_config" \notin store_failures
    /\ rules_at_select # EmptyRules
    /\ rules_config # rules_at_select
    /\ decide(fraud_score, get_full_config([ok |-> FALSE, data |-> <<>>])).decision
          # response.action

\* C10: every config a decision uses has threshold_critical >=
\* threshold_medium, both in [0, 1].
C10_ThresholdsConsistent ==
    config # None =>
        /\ config.fraud_threshold_critical >= config.fraud_threshold_medium
        /\ config.fraud_threshold_critical \in 0..1000
        /\ config.fraud_threshold_medium \in 0..1000

\* C11: get_country_from_ip never raises, and every IP string that is not a
\* dotted quad of numeric octets gets the fallback country FR.
WellFormedQuad(ip) ==
    /\ Len(ip) = 4
    /\ \A i \in 1..4 : ip[i].t = "digits"

C11_MalformedIpFallsBack ==
    pc = "predict" =>
        /\ \E i \in 1..Len(countries) : country = countries[i]
        /\ ~WellFormedQuad(tx.ip_address) => country = "FR"

Scored == pc = "insert_prediction"

\* C12: for amounts a1 < a2 the amount-tier bonus of a2 is at least that of
\* a1, and an amount at or below the smallest breakpoint, negative ones
\* included, adds no tier bonus to the score.
C12_AmountTierMonotone ==
    Scored =>
        /\ \A a1 \in PredictAmounts :
              a1 < tx.amount => amount_bonus(a1) <= amount_bonus(tx.amount)
        /\ tx.amount <= 500 =>
              /\ amount_bonus(tx.amount) = 0
              /\ \E noise \in WideNoise :
                    LET rest == 50 + category_bonus(tx.category)
                                   + country_bonus(country, config)
                    IN  fraud_score =
                           clamp((IF tx.amount < config.min_amount_alert
                                  THEN rest \div 2 ELSE rest) + noise)

C12_Witness ==
    /\ Scored
    /\ tx.amount = -100
    /\ tx.category = <<"Jewelry">>
    /\ config.min_amount_alert = 100
    /\ fraud_score = 175

\* C13: the score before the noise is exactly half of base + tier bonus +
\* category bonus + country bonus when amount < min_amount_alert, and that
\* sum itself otherwise; noise and clamp come after.
C13_HalvingAfterBonuses ==
    Scored =>
        LET total == 50 + amount_bonus(tx.amount)
                        + category_bonus(tx.category)
                        + country_bonus(country, config)
        IN  \E pre \in {total, total \div 2} :
                /\ IF tx.amount < config.min_amount_alert
                   THEN 2 * pre = total
                   ELSE pre = total
                /\ \E noise \in WideNoise : fraud_score = clamp(pre + noise)

C13_Witness ==
    /\ Scored
    /\ tx.amount = 501
    /\ config.min_amount_alert = 1000
    /\ tx.category = <<"Food">>
    /\ country = "DE"
    /\ config.sensitive_countries.items = <<"DE">>
    /\ fraud_score = 200

\* C14: every non-banned transaction of the simulator's FRAUD profile (amount
\* in 2500..9000, category Electronics or Jewelry) scored under the default
\* config with zero noise is answered with action BLOCK, whatever its IP.
FraudProfile(t) ==
    /\ t.amount >= 2500
    /\ t.amount <= 9000
    /\ t.category \in {<<"Electronics">>, <<"Jewelry">>}

C14_FraudProfileBlocked ==
    ( /\ ScoredDecision
      /\ FraudProfile(tx)
      /\ config = config_defaults
      /\ fraud_score = predict(tx.amount, tx.category, country, config, 0) )
        => response.action = "BLOCK"

\* C15: when update_config reports an error, the store holds the table of
\* the call's start with exactly the updates before the failing one upserted,
\* in list order, and none of the later ones; the handler has stopped, and a
\* get_full_config of that table returns the config with the prefix applied.
RECURSIVE Persisted(_, _)
Persisted(table, prefix) ==
    IF prefix = <<>> THEN table
    ELSE Persisted([table EXCEPT ![Head(prefix).key] =
                                     to_text(Head(prefix).value)],
                   Tail(prefix))

C15_ErrorKeepsPrefix ==
    uresponse = "error" =>
        LET done == Len(ubody) - Len(updates)
            kept == Persisted(rules_at_call, SubSeq(ubody, 1, done))
        IN  /\ upc = "done"
            /\ Len(updates) >= 1
            /\ done >= 0
            /\ updates = SubSeq(ubody, done + 1, Len(ubody))
            /\ rules_config = kept
            /\ ( /\ pc = "predict"
                 /\ "rules_config" \notin store_failures
                 /\ rules_at_select = rules_config )
                 => \E order \in Orders(RowKeys(kept)) :
                       config = get_full_config(
                                  [ok |-> TRUE,
                                   data |-> [i \in 1..Len(order) |->
                                               Row(order[i], kept[order[i]])]])

C15_Witness ==
    /\ uresponse = "error"
    /\ Len(ubody) = 2
    /\ Len(updates) = 1
    /\ rules_at_call = EmptyRules
    /\ rules_config # EmptyRules
    /\ pc = "predict"
    /\ "rules_config" \notin store_failures
    /\ rules_at_select = rules_config
    /\ config # config_defaults

====
